---- MODULE Spec2Model ----
(***************************************************************************)
(* State-machine model of the client-side session store                    *)
(* (frontend/lib/auth-context.tsx), of the order page's cart / checkout    *)
(* state (OrderPage in frontend/app/prescriptions/page.tsx), of the login  *)
(* pages (frontend/app/login), of the notification poller of the           *)
(* consultations page and the doctor dashboard, and of the request         *)
(* helper and the methods of `api` in frontend/lib/api.ts.                 *)
(*                                                                         *)
(* React state is modelled by one variable per useState / useRef cell.     *)
(* Every event handler runs to completion (single-threaded event loop) and *)
(* is followed by the re-render it schedules, so the derived constant      *)
(* `total` is recomputed at the end of every action.  An `await` splits a  *)
(* handler in two actions: the part before it and its continuation.        *)
(***************************************************************************)
EXTENDS Integers, Sequences, FiniteSets, TLC

\* ------------------------------------------------------------------ bounds
MaxMedicines == 2        \* medicines of the catalogue the page can show
MaxQty       == 2        \* largest quantity an item is driven to
MaxOrders    == 1        \* createOrder requests sent per page mount
MaxPending   == 2        \* login calls pending at the same time
MaxNotifications == 2    \* notifications the backend holds for a user
MaxFetches   == 2        \* getNotifications requests in flight at the same time
MaxMarks     == 1        \* mark-as-read requests in flight at the same time
MaxConfirms  == 2        \* clicks on Confirm Order per page mount, in the dialog's own specification

VARIABLES
    \* --- AuthProvider (auth-context.tsx)
    user,             \* useState<User | null>
    userType,         \* useState<UserType>
    isLoading,        \* useState(true)
    storage,          \* localStorage: the keys 'user' and 'userType'
    crashed,          \* an error escaped an effect: the provider is torn down
    logins,           \* login() calls suspended at their await
    lastAuth,         \* history: the last session operation, its result, the state before it
    \* --- OrderPage (prescriptions/page.tsx)
    cart,             \* useState<any[]>([])
    address,          \* useState('')
    phone,            \* useState('')
    showDialog,       \* useState(false)
    total,            \* const total of the last render
    hasAddedMedicine, \* useRef(false)
    addMedicineParam, \* searchParams.get('addMedicine')
    effectPending,    \* the addMedicine effect is scheduled (a dependency changed)
    route,            \* the page the router shows
    orders,           \* createOrder requests in flight (their payloads)
    sent,             \* number of createOrder requests sent so far
    toast,            \* the toast the last operation raised ("" when it raised none)
    last,             \* history: the last order-page operation and the state before it
    addHistory,       \* history: how often each id was added, while only addItem calls were made
    \* --- PatientLoginPage / DoctorLoginPage (login/*/page.tsx)
    submit,           \* the handleSubmit call suspended at an await (NoSubmit when none)
    leaving,          \* the URL assigned to window.location.href, until the document is replaced
    \* --- ConsultationsPage / DoctorDashboardPage: the notification poller
    timers,           \* the intervals setInterval started and clearInterval has not cleared
    cleanup,          \* the interval the polling effect's cleanup function clears (0: none)
    notifications,    \* useState<Notification[]>([])
    unreadCount,      \* useState(0)
    fetches,          \* api.getNotifications requests in flight
    marks,            \* markNotificationRead / markAllNotificationsRead requests in flight
    lastPoll,         \* history: the last poller operation and the state before it
    \* --- apiRequest and the wrappers of its shape (api.ts)
    call,             \* the wrapper called and what fetch does for it
    settled           \* how the promise the wrapper returned has settled

authVars  == <<user, userType, isLoading, storage, crashed, logins, lastAuth>>
orderVars == <<cart, address, phone, showDialog, total, hasAddedMedicine,
               addMedicineParam, effectPending, route, orders, sent, toast, last,
               addHistory>>
loginPageVars == <<submit, leaving>>
pollVars  == <<timers, cleanup, notifications, unreadCount, fetches, marks, lastPoll>>
apiVars   == <<call, settled>>
restVars  == <<loginPageVars, pollVars, apiVars>>
vars      == <<authVars, orderVars, restVars>>

\* ------------------------------------------------------------- identities
\* null, for the string-typed cells
Null == "null"

\* User | null: null is the record NullUser, so that every value of the cell
\* has the same shape.  name / phone / specialization are carried along
\* unchanged by the code and are left out.
NullUser == [id |-> Null, email |-> Null, type |-> Null]

DEMO_PATIENTS ==
    { [id |-> "1", email |-> "patient@demo.com", password |-> "patient123"],
      [id |-> "2", email |-> "sarah@demo.com",   password |-> "demo123"] }

DEMO_DOCTORS ==
    { [id |-> "1", email |-> "doctor@demo.com",  password |-> "doctor123"],
      [id |-> "2", email |-> "drpriya@demo.com", password |-> "demo123"] }

\* The credentials of backend/README.md, "Demo Credentials"
DemoCredentials ==
    { [email |-> "patient@demo.com", password |-> "patient123", type |-> "patient"],
      [email |-> "doctor@demo.com",  password |-> "doctor123",  type |-> "doctor"] }

\* inputs of login(email, password, type)
Emails    == {"patient@demo.com", "doctor@demo.com", "sarah@demo.com"}
Passwords == {"patient123", "doctor123", "demo123"}
UserTypes == {"patient", "doctor", Null}
LoginCalls == [email : Emails, password : Passwords, type : UserTypes]

\* userData built from a roster entry (auth-context.tsx 61-67, 77-83)
userData(entry, type) == [id |-> entry.id, email |-> entry.email, type |-> type]

\* localStorage values.  JSON.stringify(userData) is a string; JSON.parse of
\* it gives userData back, JSON.parse of anything else throws.
Absent  == [kind |-> "absent",  val |-> NullUser]
Corrupt == [kind |-> "corrupt", val |-> NullUser]
stringify(u) == [kind |-> "json", val |-> u]
parses(s)    == s.kind = "json"
parse(s)     == s.val

EmptyStorage == [user |-> Absent, userType |-> Null]


\* ------------------------------------------------------------ AuthProvider
isAuthenticated == user /= NullUser

NoCall == [email |-> Null, password |-> Null, type |-> Null]

\* the session as an operation finds it
session == [user |-> user, userType |-> userType, storage |-> storage]

\* faulty variant of find: the password is not compared
findByEmail(roster, email, password) == { p \in roster : p.email = email }

\* ROSTER.find(p => p.email === email && p.password === password); emails are
\* unique in each roster, so at most one entry matches
find(roster, email, password) ==
    { p \in roster : p.email = email /\ p.password = password }

\* faulty variant of matching: every type but 'doctor' is looked up as a patient
matchingDefaultsToPatient(c) ==
    IF c.type = "doctor" THEN find(DEMO_DOCTORS, c.email, c.password)
    ELSE find(DEMO_PATIENTS, c.email, c.password)

\* the roster entries login(email, password, type) accepts
matching(c) ==
    IF c.type = "patient" THEN find(DEMO_PATIENTS, c.email, c.password)
    ELSE IF c.type = "doctor" THEN find(DEMO_DOCTORS, c.email, c.password)
    ELSE {}

\* what localStorage may hold when the application starts: nothing, the pair a
\* login wrote, or a 'user' value that is not JSON
InitialStorages ==
    { EmptyStorage, [user |-> Corrupt, userType |-> "patient"] }
    \cup { [user |-> stringify(userData(p, "patient")), userType |-> "patient"] : p \in DEMO_PATIENTS }
    \cup { [user |-> stringify(userData(d, "doctor")), userType |-> "doctor"] : d \in DEMO_DOCTORS }

\* useEffect(() => {...}, []): runs once, after the first render
restore ==
    /\ isLoading /\ ~crashed
    /\ IF storage.user.kind /= "absent" /\ storage.userType /= Null
       THEN IF parses(storage.user)
            THEN /\ user' = parse(storage.user)
                 /\ userType' = storage.userType
                 /\ isLoading' = FALSE
                 /\ crashed' = FALSE
            ELSE \* JSON.parse throws inside the effect: setIsLoading is not reached
                 /\ crashed' = TRUE
                 /\ UNCHANGED <<user, userType, isLoading>>
       ELSE /\ isLoading' = FALSE
            /\ UNCHANGED <<user, userType, crashed>>
    /\ lastAuth' = [op |-> "restore", call |-> NoCall, result |-> FALSE, pre |-> session]
    /\ UNCHANGED <<storage, logins>>
    \* user / isLoading are dependencies of the mounted page's effects
    /\ effectPending' = ~crashed'
    /\ UNCHANGED <<cart, address, phone, showDialog, total, hasAddedMedicine,
                   addMedicineParam, route, orders, sent, toast, last, addHistory>>
    /\ UNCHANGED restVars

\* login(...) up to its await: the call is suspended for the simulated delay
loginCall(c) ==
    /\ ~isLoading /\ ~crashed
    /\ c \notin logins
    /\ Cardinality(logins) < MaxPending
    /\ logins' = logins \cup {c}
    /\ UNCHANGED <<user, userType, isLoading, storage, crashed, lastAuth>>
    /\ UNCHANGED orderVars
    /\ UNCHANGED restVars

\* faulty variant of loginWrites: the 'userType' key is not written
loginWritesUserKey(u, type) ==
    /\ user' = u
    /\ userType' = type
    /\ storage' = [user |-> [kind |-> "json", val |-> u], userType |-> storage.userType]

\* faulty variant of loginWrites: a login does not replace the session of an
\* earlier one
loginWritesOnce(u, type) ==
    IF user = NullUser
    THEN /\ user' = u
         /\ userType' = type
         /\ storage' = [user |-> [kind |-> "json", val |-> u], userType |-> type]
    ELSE UNCHANGED <<user, userType, storage>>

\* the writes of a successful login: setUser, setUserType and the two setItem
loginWrites(u, type) ==
    /\ user' = u
    /\ userType' = type
    /\ storage' = [user |-> stringify(u), userType |-> type]

\* login(...) after its await: the credential check and the writes
login(c) ==
    /\ c \in logins
    /\ logins' = logins \ {c}
    /\ IF matching(c) /= {}
       THEN /\ loginWrites(userData(CHOOSE p \in matching(c) : TRUE, c.type), c.type)
            /\ lastAuth' = [op |-> "login", call |-> c, result |-> TRUE, pre |-> session]
            \* user / userType are dependencies of the mounted page's effects
            /\ effectPending' = TRUE
       ELSE /\ UNCHANGED <<user, userType, storage, effectPending>>
            /\ lastAuth' = [op |-> "login", call |-> c, result |-> FALSE, pre |-> session]
    /\ UNCHANGED <<isLoading, crashed>>
    /\ UNCHANGED <<cart, address, phone, showDialog, total, hasAddedMedicine,
                   addMedicineParam, route, orders, sent, toast, last, addHistory>>
    /\ UNCHANGED restVars

\* faulty variant of logoutWrites: the 'userType' key is not removed
logoutKeepsUserType ==
    /\ user' = NullUser
    /\ userType' = Null
    /\ storage' = [user |-> Absent, userType |-> storage.userType]

\* the body of logout()
logoutWrites ==
    /\ user' = NullUser
    /\ userType' = Null
    /\ storage' = [user |-> Absent, userType |-> Null]

\* logout() called through the context
logout ==
    /\ ~isLoading /\ ~crashed
    /\ logoutWrites
    /\ lastAuth' = [op |-> "logout", call |-> NoCall, result |-> FALSE, pre |-> session]
    /\ UNCHANGED <<isLoading, crashed, logins>>
    /\ UNCHANGED orderVars
    /\ UNCHANGED restVars


\* --------------------------------------------------------------- OrderPage
\* The medicines the backend serves (search results, the dashboard's Order Now
\* button), by id; the name is not modelled.
priceOf(id) == 10 * id + 5
Medicines == { [id |-> i, price |-> priceOf(i)] : i \in 1..MaxMedicines }
medicine(id) == [id |-> id, price |-> priceOf(id)]

\* text of the inputs, as sequences of characters
FieldValues == { <<>>, <<" ">>, <<"a">> }

\* toast messages, as sequences of words (the medicine's name, which opens the
\* two "added" messages, is left out); NoToast: the operation raised none
NoToast == <<>>

\* the addMedicine URL parameter: absent, not parseable, or encodeURIComponent(
\* JSON.stringify(medicine)), which JSON.parse(decodeURIComponent(..)) gives back
NoParam == [kind |-> "none", id |-> 0]
BadParam == [kind |-> "malformed", id |-> 0]
encodeMedicine(m) == [kind |-> "json", id |-> m.id]
decodeMedicine(p) == medicine(p.id)
Params == {NoParam, BadParam} \cup { encodeMedicine(m) : m \in Medicines }

inCart(c, id) == \E i \in 1..Len(c) : c[i].id = id

\* const total = cart.reduce((sum, m) => sum + (m.price * m.quantity), 0)
RECURSIVE reduce(_, _, _)
reduce(c, i, sum) ==
    IF i > Len(c) THEN sum
    ELSE reduce(c, i + 1, sum + (c[i].price * c[i].quantity))

\* faulty variant of reduceTotal: the quantity is left out of the sum
RECURSIVE reducePrices(_, _, _)
reducePrices(c, i, sum) ==
    IF i > Len(c) THEN sum ELSE reducePrices(c, i + 1, sum + c[i].price)

reduceTotalOfPrices(c) == reducePrices(c, 1, 0)

reduceTotal(c) == reduce(c, 1, 0)

\* faulty variant of addToCartResult: every Add appends a row
addToCartAppends(c, m) == Append(c, [id |-> m.id, price |-> m.price, quantity |-> 1])

\* faulty variant of addToCartResult: a new row is put in front
addToCartPrepends(c, m) ==
    IF inCart(c, m.id)
    THEN [i \in 1..Len(c) |->
            IF c[i].id = m.id THEN [c[i] EXCEPT !.quantity = c[i].quantity + 1] ELSE c[i]]
    ELSE <<[id |-> m.id, price |-> m.price, quantity |-> 1]>> \o c

\* the cart addToCart sets
addToCartResult(c, m) ==
    IF inCart(c, m.id)
    THEN [i \in 1..Len(c) |->
            IF c[i].id = m.id THEN [c[i] EXCEPT !.quantity = c[i].quantity + 1] ELSE c[i]]
    ELSE Append(c, [id |-> m.id, price |-> m.price, quantity |-> 1])

\* faulty variant of addMedicineUpdate: the medicine is put in twice
addMedicineUpdateTwice(prevCart, m) ==
    IF inCart(prevCart, m.id)
    THEN [i \in 1..Len(prevCart) |->
            IF prevCart[i].id = m.id
            THEN [prevCart[i] EXCEPT !.quantity = prevCart[i].quantity + 2]
            ELSE prevCart[i]]
    ELSE Append(prevCart, [id |-> m.id, price |-> m.price, quantity |-> 2])

\* the functional update of the addMedicine effect: setCart(prevCart => ...)
addMedicineUpdate(prevCart, m) ==
    IF inCart(prevCart, m.id)
    THEN [i \in 1..Len(prevCart) |->
            IF prevCart[i].id = m.id
            THEN [prevCart[i] EXCEPT !.quantity = prevCart[i].quantity + 1]
            ELSE prevCart[i]]
    ELSE Append(prevCart, [id |-> m.id, price |-> m.price, quantity |-> 1])

\* cart.filter(m => m.id !== id)
RECURSIVE filterOut(_, _)
filterOut(c, id) ==
    IF c = <<>> THEN <<>>
    ELSE IF Head(c).id /= id THEN <<Head(c)>> \o filterOut(Tail(c), id)
    ELSE filterOut(Tail(c), id)

\* faulty variant of updateQuantityResult: the removal test is qty < 0
updateQuantityKeepsZero(c, id, qty) ==
    IF qty < 0 THEN filterOut(c, id)
    ELSE [i \in 1..Len(c) |-> IF c[i].id = id THEN [c[i] EXCEPT !.quantity = qty] ELSE c[i]]

\* faulty variant of updateQuantityResult: the id is not compared in the map
updateQuantitySetsAll(c, id, qty) ==
    IF qty < 1 THEN filterOut(c, id)
    ELSE [i \in 1..Len(c) |-> [c[i] EXCEPT !.quantity = qty]]

\* the cart updateQuantity sets
updateQuantityResult(c, id, qty) ==
    IF qty < 1 THEN filterOut(c, id)
    ELSE [i \in 1..Len(c) |-> IF c[i].id = id THEN [c[i] EXCEPT !.quantity = qty] ELSE c[i]]

\* the history record of an order-page operation
NoOrder == [n |-> 0, userId |-> Null, medicines |-> <<>>, address |-> <<>>,
            phone |-> <<>>, total |-> 0]

op(name, id, qty) ==
    [op |-> name, id |-> id, qty |-> qty, pre |-> cart, preSent |-> sent,
     order |-> NoOrder]

\* history of the addItem calls: counted until another operation changes the cart
NoAdds == [only |-> TRUE, count |-> [i \in 1..MaxMedicines |-> 0]]
Forgotten == [only |-> FALSE, count |-> [i \in 1..MaxMedicines |-> 0]]
counted(id) ==
    IF addHistory.only
    THEN [addHistory EXCEPT !.count[id] = addHistory.count[id] + 1]
    ELSE Forgotten

\* the page is rendered with its controls (not the spinner, not null) and its
\* effects have run
pageReady ==
    /\ ~isLoading /\ ~crashed /\ user /= NullUser
    /\ route = "/order"
    /\ ~effectPending

\* the controls behind the confirmation dialog: the dialog is modal
pageActive == pageReady /\ ~showDialog

\* The two effects of the page, run after a commit that changed user,
\* authLoading or searchParams.
pageEffects ==
    /\ effectPending /\ ~isLoading /\ ~crashed /\ route = "/order"
    /\ IF user = NullUser
       THEN \* router.push('/login')
            /\ route' = "/login"
            /\ effectPending' = FALSE
            /\ toast' = NoToast
            /\ last' = op("redirect", 0, 0)
            /\ UNCHANGED <<cart, hasAddedMedicine, addMedicineParam, addHistory>>
       ELSE IF addMedicineParam.kind /= "none" /\ ~hasAddedMedicine
       THEN /\ hasAddedMedicine' = TRUE
            /\ IF addMedicineParam.kind = "json"
               THEN /\ cart' = addMedicineUpdate(cart, decodeMedicine(addMedicineParam))
                    /\ toast' = <<"added", "to", "cart">>
                    \* router.replace('/order'): searchParams changes, the effect runs again
                    /\ addMedicineParam' = NoParam
                    /\ effectPending' = TRUE
                    /\ last' = op("addMedicine", addMedicineParam.id, 0)
                    /\ addHistory' = counted(addMedicineParam.id)
               ELSE \* JSON.parse throws, the catch logs it
                    /\ effectPending' = FALSE
                    /\ toast' = NoToast
                    /\ last' = op("addMedicineFailed", 0, 0)
                    /\ UNCHANGED <<cart, addMedicineParam, addHistory>>
            /\ UNCHANGED route
       ELSE /\ effectPending' = FALSE
            /\ UNCHANGED <<cart, hasAddedMedicine, addMedicineParam, toast, route, last,
                           addHistory>>
    /\ total' = reduceTotal(cart')
    /\ UNCHANGED <<address, phone, showDialog, orders, sent>>
    /\ UNCHANGED authVars
    /\ UNCHANGED restVars

\* the Add button of a search result
addToCart(m) ==
    /\ pageActive
    /\ \A i \in 1..Len(cart) : cart[i].id = m.id => cart[i].quantity < MaxQty
    /\ cart' = addToCartResult(cart, m)
    /\ toast' = <<"added">>
    /\ last' = op("addToCart", m.id, 0)
    /\ addHistory' = counted(m.id)
    /\ total' = reduceTotal(cart')
    /\ UNCHANGED <<address, phone, showDialog, hasAddedMedicine, addMedicineParam,
                   effectPending, route, orders, sent>>
    /\ UNCHANGED authVars
    /\ UNCHANGED restVars

\* updateQuantity(id, qty): the - and + buttons of a cart row call it with the
\* row's id and quantity -+ 1; it is modelled for every id and quantity
updateQuantity(id, qty) ==
    /\ pageActive
    /\ cart' = updateQuantityResult(cart, id, qty)
    /\ toast' = NoToast
    /\ last' = op("updateQuantity", id, qty)
    /\ addHistory' = Forgotten
    /\ total' = reduceTotal(cart')
    /\ UNCHANGED <<address, phone, showDialog, hasAddedMedicine, addMedicineParam,
                   effectPending, route, orders, sent>>
    /\ UNCHANGED authVars
    /\ UNCHANGED restVars

\* the history record of an operation that leaves the cart alone
edit(name) == [op |-> name, id |-> 0, qty |-> 0, pre |-> <<>>, preSent |-> 0,
               order |-> NoOrder]

\* onChange of the Address input
setAddress(v) ==
    /\ pageActive
    /\ address /= v
    /\ address' = v
    /\ toast' = NoToast
    /\ last' = edit("setAddress")
    /\ UNCHANGED addHistory
    /\ UNCHANGED <<cart, phone, showDialog, total, hasAddedMedicine, addMedicineParam,
                   effectPending, route, orders, sent>>
    /\ UNCHANGED authVars
    /\ UNCHANGED restVars

\* onChange of the Phone input
setPhone(v) ==
    /\ pageActive
    /\ phone /= v
    /\ phone' = v
    /\ toast' = NoToast
    /\ last' = edit("setPhone")
    /\ UNCHANGED addHistory
    /\ UNCHANGED <<cart, address, showDialog, total, hasAddedMedicine, addMedicineParam,
                   effectPending, route, orders, sent>>
    /\ UNCHANGED authVars
    /\ UNCHANGED restVars

\* faulty variant of validation: the empty-cart check is missing
validationSkipsCart(c, a, p) ==
    IF a = <<>> \/ p = <<>> THEN <<"Fill", "all", "fields">> ELSE <<>>

\* faulty variant of validation: only the address is looked at
validationOfAddress(c, a, p) ==
    IF Len(c) = 0 THEN <<"Cart", "is", "empty">>
    ELSE IF a = <<>> THEN <<"Fill", "all", "fields">>
    ELSE <<>>

\* the checks of handlePlaceOrder: the toast.error it raises, NoToast when the
\* cart and the fields pass
validation(c, a, p) ==
    IF Len(c) = 0 THEN <<"Cart", "is", "empty">>
    ELSE IF a = <<>> \/ p = <<>> THEN <<"Fill", "all", "fields">>
    ELSE NoToast

\* the Place Order button.  The button is disabled while the cart is empty;
\* the handler is modelled for every cart.
handlePlaceOrder ==
    /\ pageActive
    /\ toast' = validation(cart, address, phone)
    /\ showDialog' = IF toast' = NoToast THEN TRUE ELSE showDialog
    /\ last' = op("handlePlaceOrder", 0, 0)
    /\ UNCHANGED addHistory
    /\ UNCHANGED <<cart, address, phone, total, hasAddedMedicine, addMedicineParam,
                   effectPending, route, orders, sent>>
    /\ UNCHANGED authVars
    /\ UNCHANGED restVars

\* the dialog's Cancel button (onOpenChange(false) likewise)
cancelDialog ==
    /\ pageReady /\ showDialog
    /\ showDialog' = FALSE
    /\ toast' = NoToast
    /\ last' = edit("cancelDialog")
    /\ UNCHANGED addHistory
    /\ UNCHANGED <<cart, address, phone, total, hasAddedMedicine, addMedicineParam,
                   effectPending, route, orders, sent>>
    /\ UNCHANGED authVars
    /\ UNCHANGED restVars

\* the body api.createOrder posts: the cart, address, phone and total of the
\* render whose Confirm button was clicked
orderData ==
    [n |-> sent + 1, userId |-> user.id, medicines |-> cart,
     address |-> address, phone |-> phone, total |-> total]

\* confirmOrder up to its await: the request is sent.  The Confirm button is
\* enabled whenever the dialog is shown.
confirmOrder ==
    /\ pageReady /\ showDialog
    /\ IF user = NullUser
       THEN /\ toast' = <<"User", "not", "logged", "in">>
            /\ UNCHANGED <<orders, sent>>
       ELSE /\ orders' = orders \cup {orderData}
            /\ sent' = sent + 1
            /\ toast' = NoToast
    /\ last' = op("confirmOrder", 0, 0)
    /\ UNCHANGED addHistory
    /\ UNCHANGED <<cart, address, phone, showDialog, total, hasAddedMedicine,
                   addMedicineParam, effectPending, route>>
    /\ UNCHANGED authVars
    /\ UNCHANGED restVars

\* How api.createOrder settles: fetch resolves and the decoded body reports
\* success, or does not report it (whatever the HTTP status), or fetch /
\* response.json() rejects.
Outcomes == {"success", "noSuccess", "rejects"}

\* faulty variant of settledCart: the cart is cleared whatever the outcome
settledCartCleared(outcome, c) == <<>>

\* the cart confirmOrder leaves when the request has settled
settledCart(outcome, c) == IF outcome = "success" THEN <<>> ELSE c

\* confirmOrder after its await
orderSettled(o, outcome) ==
    /\ o \in orders
    /\ orders' = orders \ {o}
    /\ cart' = settledCart(outcome, cart)
    /\ IF outcome = "success"
       THEN /\ toast' = <<"Order", "placed", "successfully!">>
            /\ showDialog' = FALSE
            /\ route' = "/consultations"
       ELSE IF outcome = "rejects"
       THEN /\ toast' = <<"Order", "failed">>
            /\ UNCHANGED <<showDialog, route>>
       ELSE /\ toast' = NoToast
            /\ UNCHANGED <<showDialog, route>>
    /\ last' = [op |-> outcome, id |-> 0, qty |-> 0, pre |-> cart, preSent |-> sent,
                order |-> o]
    /\ addHistory' = IF outcome = "success" THEN Forgotten ELSE addHistory
    /\ total' = reduceTotal(cart')
    /\ UNCHANGED <<address, phone, hasAddedMedicine, addMedicineParam, effectPending, sent>>
    /\ UNCHANGED authVars
    /\ UNCHANGED restVars


\* ------------------------------------- PatientLoginPage / DoctorLoginPage
LoginPages == {"/login/patient", "/login/doctor"}

\* the type each page passes to api.login and to login
pageType(r) == IF r = "/login/patient" THEN "patient" ELSE "doctor"

\* the page a successful submit goes to
dashboard(type) == IF type = "patient" THEN "/patient-dashboard" ELSE "/doctor-dashboard"

\* the page's submit: none yet, suspended at `await api.login` ("backend") or
\* at `await login` ("demo"), or finished ("done"); caught: what the catch caught
NoSubmit == [stage |-> "none", call |-> NoCall, caught |-> "none"]

\* a || b on strings: b when a is undefined (or empty)
orElse(a, b) == IF a = Null THEN b ELSE a

\* How api.login settles.  It is a raw fetch that returns response.json(): the
\* decoded body whatever the HTTP status, with success and user set ("ok": the
\* user's id may be missing) or not ("denied", with or without a message); it
\* rejects when fetch does ("unreachable") or the body is not JSON ("notJSON").
BackendIds == {"7", Null}
Messages == { <<>>, <<"Account", "not", "found">> }
Rejections == {"unreachable", "notJSON"}
LoginResults ==
    { [kind |-> "ok", id |-> i, message |-> <<>>] : i \in BackendIds }
    \cup { [kind |-> "denied", id |-> Null, message |-> m] : m \in Messages }
    \cup { [kind |-> r, id |-> Null, message |-> <<>>] : r \in Rejections }

\* the Link of LoginPage to each portal
openLoginPage(type) ==
    /\ ~isLoading /\ ~crashed
    /\ route = "/login"
    /\ route' = IF type = "patient" THEN "/login/patient" ELSE "/login/doctor"
    /\ toast' = NoToast
    /\ UNCHANGED <<cart, address, phone, showDialog, total, hasAddedMedicine,
                   addMedicineParam, effectPending, orders, sent, last, addHistory>>
    /\ UNCHANGED authVars
    /\ UNCHANGED restVars

\* handleSubmit up to `await api.login(...)`; the submit button is disabled
\* while the page's isLoading is set, that is while a submit is pending
handleSubmit(email, password) ==
    /\ ~isLoading /\ ~crashed
    /\ route \in LoginPages
    /\ submit.stage \in {"none", "done"}
    /\ submit' = [stage |-> "backend",
                  call |-> [email |-> email, password |-> password, type |-> pageType(route)],
                  caught |-> "none"]
    /\ UNCHANGED leaving
    /\ toast' = NoToast
    /\ UNCHANGED <<cart, address, phone, showDialog, total, hasAddedMedicine,
                   addMedicineParam, effectPending, route, orders, sent, last, addHistory>>
    /\ UNCHANGED authVars
    /\ UNCHANGED <<pollVars, apiVars>>

\* faulty variant of pageLoginWrites: the 'userType' key is not written
pageLoginWritesUser(c, result) ==
    [user |-> [kind |-> "json",
               val |-> [id |-> orElse(result.id, c.email), email |-> c.email, type |-> c.type]],
     userType |-> storage.userType]

\* the two setItem of the backend path: the identity is built from the
\* backend's user (its email is the account's), the type is the page's
pageLoginWrites(c, result) ==
    [user |-> stringify([id |-> orElse(result.id, c.email), email |-> c.email, type |-> c.type]),
     userType |-> c.type]

\* the toast of a successful submit
welcome(type, demo) ==
    (IF type = "patient" THEN <<"Welcome", "back!">> ELSE <<"Welcome", "back,", "Doctor!">>)
    \o (IF demo THEN <<"(Demo", "mode)">> ELSE <<>>)

InvalidCredentials == <<"Invalid", "email", "or", "password">>

\* faulty variant of throws: every answer but a successful one is taken for
\* a failure of the call
throwsUnlessOk(result) == result.kind /= "ok"

\* `await api.login(...)` throws: the catch block runs
throws(result) == result.kind \in Rejections

\* handleSubmit after `await api.login(...)`
loginSettled(result) ==
    /\ submit.stage = "backend"
    /\ IF throws(result)
       THEN \* catch: the error is logged; the demo fallback, up to the await
            \* inside login
            /\ submit' = [stage |-> "demo", call |-> submit.call, caught |-> result.kind]
            /\ toast' = NoToast
            /\ UNCHANGED <<leaving, authVars>>
       ELSE IF result.kind = "ok"
       THEN \* the two keys are written and window.location.href is assigned:
            \* the browser starts to load the dashboard, the handler goes on to
            \* its finally; the provider's user is not touched
            /\ storage' = pageLoginWrites(submit.call, result)
            /\ toast' = welcome(submit.call.type, FALSE)
            /\ leaving' = dashboard(submit.call.type)
            /\ submit' = [submit EXCEPT !.stage = "done"]
            /\ lastAuth' = [op |-> "pageLogin", call |-> submit.call, result |-> TRUE,
                            pre |-> session]
            /\ UNCHANGED <<user, userType, isLoading, crashed, logins>>
       ELSE /\ toast' = IF result.message /= <<>> THEN result.message ELSE InvalidCredentials
            /\ submit' = [submit EXCEPT !.stage = "done"]
            /\ lastAuth' = [op |-> "denied", call |-> submit.call, result |-> FALSE,
                            pre |-> session]
            /\ UNCHANGED <<user, userType, isLoading, storage, crashed, logins, leaving>>
    /\ UNCHANGED <<cart, address, phone, showDialog, total, hasAddedMedicine,
                   addMedicineParam, effectPending, route, orders, sent, last, addHistory>>
    /\ UNCHANGED <<pollVars, apiVars>>

\* the document is replaced by the one window.location.href names: a new
\* provider, not yet restored; what the old document was waiting for is gone
reload ==
    /\ leaving /= Null
    /\ route' = leaving
    /\ leaving' = Null
    /\ submit' = NoSubmit
    /\ user' = NullUser
    /\ userType' = Null
    /\ isLoading' = TRUE
    /\ crashed' = FALSE
    /\ logins' = {}
    /\ lastAuth' = [op |-> "mount", call |-> NoCall, result |-> FALSE,
                    pre |-> [user |-> NullUser, userType |-> Null, storage |-> storage]]
    /\ toast' = NoToast
    /\ UNCHANGED storage
    /\ UNCHANGED <<cart, address, phone, showDialog, total, hasAddedMedicine,
                   addMedicineParam, effectPending, orders, sent, last, addHistory>>
    /\ UNCHANGED <<pollVars, apiVars>>

\* the fallback after `await login(...)`: the body of login, then the page's
\* toast and router.push
demoSettled ==
    /\ submit.stage = "demo"
    /\ submit' = [submit EXCEPT !.stage = "done"]
    /\ UNCHANGED leaving
    /\ IF matching(submit.call) /= {}
       THEN /\ loginWrites(userData(CHOOSE p \in matching(submit.call) : TRUE, submit.call.type),
                           submit.call.type)
            /\ lastAuth' = [op |-> "login", call |-> submit.call, result |-> TRUE, pre |-> session]
            /\ toast' = welcome(submit.call.type, TRUE)
            /\ route' = dashboard(submit.call.type)
       ELSE /\ UNCHANGED <<user, userType, storage>>
            /\ lastAuth' = [op |-> "login", call |-> submit.call, result |-> FALSE, pre |-> session]
            /\ toast' = InvalidCredentials
            /\ UNCHANGED route
    /\ UNCHANGED <<isLoading, crashed, logins>>
    /\ UNCHANGED <<cart, address, phone, showDialog, total, hasAddedMedicine,
                   addMedicineParam, effectPending, orders, sent, last, addHistory>>
    /\ UNCHANGED <<pollVars, apiVars>>


\* ----------------- ConsultationsPage / DoctorDashboardPage: notifications
PollPages == {"/consultations", "/doctor-dashboard"}

\* a notification as the pages use it: its _id and its read flag
Notifications == [id : 1..MaxNotifications, read : BOOLEAN]

\* the lists the backend answers with, ordered by id
NotificationLists ==
    { l \in UNION { [1..n -> Notifications] : n \in 0..MaxNotifications } :
          \A i \in 1..(Len(l) - 1) : l[i].id < l[i + 1].id }

unread(l) == Cardinality({ i \in 1..Len(l) : ~l[i].read })

\* How api.getNotifications settles: apiRequest resolves with the body of a 2xx
\* response, which carries notifications and unreadCount ("full") or neither
\* ("bare"), and rejects on a non-2xx response or when the server is unreachable.
Responses ==
    { [kind |-> "full", notifications |-> l, unreadCount |-> unread(l)] : l \in NotificationLists }
    \cup { [kind |-> "bare", notifications |-> <<>>, unreadCount |-> 0] }
    \cup { [kind |-> "rejects", notifications |-> <<>>, unreadCount |-> 0] }

\* what started a loadNotifications call
Origins == {"effect", "tick", "markOne", "markAll"}
MarkKinds == {"markOne", "markAll"}

NoFetches == [o \in Origins |-> 0]
NoMarks == [k \in MarkKinds |-> 0]
inFlight(f) == f["effect"] + f["tick"] + f["markOne"] + f["markAll"]
marksInFlight(m) == m["markOne"] + m["markAll"]

\* what the page shows of the notifications
view == [notifications |-> notifications, unreadCount |-> unreadCount]
NoView == [notifications |-> <<>>, unreadCount |-> 0]

\* the history record of a poller operation
\* (an operation that unmounts the page: the view before it is not kept)
poll(name) ==
    [op |-> name, origin |-> "none", pre |-> NoView, fetching |-> inFlight(fetches),
     active |-> Cardinality(timers), against |-> user]
pollOf(name, origin) ==
    [op |-> name, origin |-> origin, pre |-> view, fetching |-> inFlight(fetches),
     active |-> Cardinality(timers), against |-> user]
NoPoll == [op |-> "mount", origin |-> "none", pre |-> NoView, fetching |-> 0,
           active |-> 0, against |-> NullUser]

\* setInterval gives a handle no active interval has
fresh(ts) == CHOOSE h \in 1..(Cardinality(ts) + 1) : \A t \in ts : t.h /= h

\* faulty variant of clearInterval: the interval keeps running
clearNothing(ts, h) == ts

\* clearInterval(interval)
clearInterval(ts, h) == { t \in ts : t.h /= h }

\* The page is unmounted: the cleanup of the polling effect runs and the page's
\* state is gone.  The requests of an unmounted page settle without any effect
\* on a page, so they leave the model here.
teardown ==
    /\ timers' = clearInterval(timers, cleanup)
    /\ cleanup' = 0
    /\ notifications' = <<>>
    /\ unreadCount' = 0
    /\ fetches' = NoFetches
    /\ marks' = NoMarks

\* loadNotifications up to its await: one more getNotifications in flight
loadNotifications(f, origin) == [f EXCEPT ![origin] = f[origin] + 1]

\* where each page sends a visitor it does not serve
redirect(r) == IF r = "/consultations" THEN "/login" ELSE "/login/doctor"

\* the page serves this session
served(r) ==
    IF r = "/consultations" THEN user /= NullUser
    ELSE user /= NullUser /\ userType = "doctor"

\* The polling effect, run after a commit that changed user, userType or
\* authLoading: the cleanup of its last run first, then its body.
pollEffects ==
    /\ effectPending /\ ~isLoading /\ ~crashed /\ route \in PollPages
    /\ served(route) => inFlight(fetches) < MaxFetches
    /\ effectPending' = FALSE
    /\ IF served(route)
       THEN \* loadConsultations(); loadNotifications(); setInterval(...)
            /\ fetches' = loadNotifications(fetches, "effect")
            /\ timers' = clearInterval(timers, cleanup)
                            \cup { [h |-> fresh(clearInterval(timers, cleanup)), page |-> route] }
            /\ cleanup' = fresh(clearInterval(timers, cleanup))
            /\ lastPoll' = pollOf("effect", "effect")
            /\ UNCHANGED <<notifications, unreadCount, marks, route>>
       ELSE \* router.push(...): the page is left
            /\ teardown
            /\ route' = redirect(route)
            /\ lastPoll' = poll("redirect")
    /\ UNCHANGED <<cart, address, phone, showDialog, total, hasAddedMedicine,
                   addMedicineParam, orders, sent, toast, last, addHistory>>
    /\ UNCHANGED authVars
    /\ UNCHANGED <<loginPageVars, apiVars>>

\* the interval's callback: loadNotifications() of the render that started it
\* (and loadConsultations() on the consultations page)
tick(t) ==
    /\ t \in timers
    /\ inFlight(fetches) < MaxFetches
    /\ fetches' = loadNotifications(fetches, "tick")
    /\ lastPoll' = pollOf("tick", "tick")
    /\ UNCHANGED <<timers, cleanup, notifications, unreadCount, marks>>
    /\ UNCHANGED orderVars
    /\ UNCHANGED authVars
    /\ UNCHANGED <<loginPageVars, apiVars>>

\* faulty variant of shown: a failed fetch empties the list
shownOrEmpty(response, v) ==
    IF response.kind = "rejects"
    THEN NoView
    ELSE [notifications |-> response.notifications, unreadCount |-> response.unreadCount]

\* what loadNotifications leaves on the page: response.notifications || [] and
\* response.unreadCount || 0 when the request resolved, the page's values
\* when it rejected (the catch only logs)
shown(response, v) ==
    IF response.kind = "rejects"
    THEN v
    ELSE [notifications |-> response.notifications, unreadCount |-> response.unreadCount]

AllRead == <<"All", "notifications", "marked", "as", "read">>
MarkFailed == <<"Failed", "to", "mark", "notifications", "as", "read">>

\* loadNotifications after its await, and what its caller does next
fetchSettled(origin, response) ==
    /\ fetches[origin] > 0
    /\ fetches' = [fetches EXCEPT ![origin] = fetches[origin] - 1]
    /\ notifications' = shown(response, view).notifications
    /\ unreadCount' = shown(response, view).unreadCount
    /\ toast' = IF origin = "markAll" THEN AllRead ELSE NoToast
    /\ lastPoll' = pollOf(IF response.kind = "rejects" THEN "fetchFailed" ELSE "fetched", origin)
    /\ UNCHANGED <<timers, cleanup, marks>>
    /\ UNCHANGED <<cart, address, phone, showDialog, total, hasAddedMedicine,
                   addMedicineParam, effectPending, route, orders, sent, last, addHistory>>
    /\ UNCHANGED authVars
    /\ UNCHANGED <<loginPageVars, apiVars>>

\* the page is rendered with its controls and its effects have run
pollReady ==
    /\ ~isLoading /\ ~crashed /\ ~effectPending
    /\ route \in PollPages
    /\ served(route)

\* handleNotificationClick(notification) / handleMarkAllRead up to the await
\* of the mark request
markRequested(kind) ==
    /\ pollReady
    /\ kind = "markOne" => notifications /= <<>>
    /\ marksInFlight(marks) < MaxMarks
    /\ marks' = [marks EXCEPT ![kind] = marks[kind] + 1]
    /\ lastPoll' = pollOf("markRequested", kind)
    /\ toast' = NoToast
    /\ UNCHANGED <<timers, cleanup, notifications, unreadCount, fetches>>
    /\ UNCHANGED <<cart, address, phone, showDialog, total, hasAddedMedicine,
                   addMedicineParam, effectPending, route, orders, sent, last, addHistory>>
    /\ UNCHANGED authVars
    /\ UNCHANGED <<loginPageVars, apiVars>>

\* faulty variant of refetch: the list is not fetched again
refetchNever(f, kind, ok) == f

\* `await loadNotifications()` after the mark request: reached when the
\* request resolved, skipped when it threw
refetch(f, kind, ok) == IF ok THEN loadNotifications(f, kind) ELSE f

\* the handlers after the await of the mark request
markSettled(kind, ok) ==
    /\ marks[kind] > 0
    /\ ok => inFlight(fetches) < MaxFetches
    /\ marks' = [marks EXCEPT ![kind] = marks[kind] - 1]
    /\ fetches' = refetch(fetches, kind, ok)
    /\ toast' = IF ~ok /\ kind = "markAll" THEN MarkFailed ELSE NoToast
    /\ lastPoll' = pollOf(IF ok THEN "marked" ELSE "markFailed", kind)
    /\ UNCHANGED <<timers, cleanup, notifications, unreadCount>>
    /\ UNCHANGED <<cart, address, phone, showDialog, total, hasAddedMedicine,
                   addMedicineParam, effectPending, route, orders, sent, last, addHistory>>
    /\ UNCHANGED authVars
    /\ UNCHANGED <<loginPageVars, apiVars>>

\* the links of the navigation bar (of the patient's, the dashboard and the
\* consultations page; the other pages are like the dashboard for the poller)
navItems ==
    IF userType = "doctor" THEN {"/doctor-dashboard"}
    ELSE {"/patient-dashboard", "/consultations"}

doctorNavItems == {"/doctor-dashboard"}

\* faulty variant of Navigation: the bar is rendered for a visitor too
NavigationAlways == navItems

\* what Navigation renders: null for a visitor, else the links of navItems
Navigation ==
    IF ~isAuthenticated THEN {} ELSE navItems

\* a link of the navigation bar: the page shown is unmounted, the new one mounted
navigate(r) ==
    /\ ~isLoading /\ ~crashed /\ ~effectPending
    /\ isAuthenticated
    /\ r \in navItems /\ r /= route
    /\ route' = r
    /\ IF route \in PollPages
       THEN teardown
       ELSE UNCHANGED <<timers, cleanup, notifications, unreadCount, fetches, marks>>
    /\ effectPending' = (r \in PollPages)
    /\ lastPoll' = poll("navigate")
    /\ toast' = NoToast
    /\ UNCHANGED <<cart, address, phone, showDialog, total, hasAddedMedicine,
                   addMedicineParam, orders, sent, last, addHistory>>
    /\ UNCHANGED authVars
    /\ UNCHANGED <<loginPageVars, apiVars>>


\* Navigation.handleLogout: logout(), then router.push('/login').  The bar is
\* rendered only when authenticated.  The click's commit runs the cleanup of
\* the effects of the page shown, and the page is left.
handleLogout ==
    /\ ~isLoading /\ ~crashed
    /\ isAuthenticated
    /\ logoutWrites
    /\ route' = "/login"
    /\ lastAuth' = [op |-> "logout", call |-> NoCall, result |-> FALSE, pre |-> session]
    /\ IF route \in PollPages
       THEN teardown /\ lastPoll' = poll("logout")
       ELSE UNCHANGED pollVars
    /\ UNCHANGED <<isLoading, crashed, logins>>
    /\ UNCHANGED <<cart, address, phone, showDialog, total, hasAddedMedicine,
                   addMedicineParam, effectPending, orders, sent, toast, last,
                   addHistory>>
    /\ UNCHANGED <<loginPageVars, apiVars>>

\* ------------------------------------------ apiRequest and its like (api.ts)
\* the wrappers that turn a non-2xx response into a rejection
Helpers == {"apiRequest", "registerDoctor", "registerPatient"}

Statuses == {200, 201, 400, 404, 500}

\* response.ok
ok(status) == status >= 200 /\ status <= 299

\* The body of a response: not JSON, or a JSON object with or without an
\* `error` and a `message` field.
NotJSON == [json |-> FALSE, error |-> Null, message |-> Null]
Bodies ==
    {NotJSON} \cup [json : {TRUE}, error : {Null, "E"}, message : {Null, "M"}]

\* What fetch does: it rejects with a TypeError whose message depends on the
\* browser when the server cannot be reached, or resolves with a response.
NoBody == [json |-> FALSE, error |-> "none", message |-> "none"]
FetchOutcomes ==
    { [kind |-> "rejects", text |-> t, status |-> 0, body |-> NoBody] :
          t \in {"Failed to fetch", "Load failed"} }
    \cup { [kind |-> "response", text |-> "", status |-> st, body |-> b] :
               st \in Statuses, b \in Bodies }

Requests == [helper : Helpers, fetch : FetchOutcomes]
NoRequest == [helper |-> "none",
              fetch |-> [kind |-> "none", text |-> "", status |-> 0, body |-> NoBody]]

\* how a promise settles: resolved with a value, or rejected with an Error of
\* some class and message
Pending == [kind |-> "pending", class |-> "", text |-> "", status |-> 0, value |-> NoBody]
resolved(b) == [kind |-> "resolved", class |-> "", text |-> "", status |-> 0, value |-> b]
rejected(class, text, status) ==
    [kind |-> "rejected", class |-> class, text |-> text, status |-> status, value |-> NoBody]

Unable == "Unable to connect to the server. Please make sure the backend is running on http://localhost:5000"

\* response.json().catch(() => ({ error: ... })): the body, or the helper's
\* stand-in when the body does not parse
errorData(helper, body) ==
    IF body.json THEN body
    ELSE [json |-> TRUE,
          error |-> IF helper = "apiRequest" THEN "Request failed" ELSE "Registration failed",
          message |-> Null]

\* the Error thrown for a non-2xx response; the last resort is
\* `HTTP error! status: ${response.status}`
httpError(helper, status, body) ==
    IF helper = "apiRequest"
    THEN IF errorData(helper, body).error /= Null
         THEN rejected("Error", errorData(helper, body).error, 0)
         ELSE rejected("Error", "HTTP error! status:", status)
    ELSE IF errorData(helper, body).message /= Null
         THEN rejected("Error", errorData(helper, body).message, 0)
         ELSE IF errorData(helper, body).error /= Null
         THEN rejected("Error", errorData(helper, body).error, 0)
         ELSE rejected("Error", "HTTP error! status:", status)

\* how the promise of apiRequest / registerDoctor / registerPatient settles
wrapped(helper, f) ==
    IF f.kind = "rejects"
    THEN IF f.text = "Failed to fetch"
         THEN rejected("Error", Unable, 0)
         ELSE rejected("TypeError", f.text, 0)
    ELSE IF ~ok(f.status)
    THEN httpError(helper, f.status, f.body)
    ELSE IF f.body.json THEN resolved(f.body)
    ELSE \* response.json() rejects
         rejected("SyntaxError", "", 0)

\* the call settles
requestSettled ==
    /\ call /= NoRequest
    /\ settled = Pending
    /\ settled' = wrapped(call.helper, call.fetch)
    /\ UNCHANGED call
    /\ UNCHANGED orderVars
    /\ UNCHANGED authVars
    /\ UNCHANGED <<loginPageVars, pollVars>>

\* ---------------------------------------------- the methods of `api` (api.ts)
\* methods that call fetch themselves and return response.json()
RawWrappers ==
    {"login", "searchMedicines", "getMedicine", "getMedicineUsages",
     "getMedicineUsagesByName", "getAllMedicines", "analyzeSymptoms",
     "createOrder", "createPrescription", "analyzeMedicineImage",
     "analyzePrescriptionImage"}

\* methods that return apiRequest(...)
HelperWrappers ==
    {"getUserOrders", "getUserConsultations", "getPendingConsultations",
     "updateConsultation", "getNearbyShops", "healthCheck",
     "getDoctorRegistrations", "reviewDoctorRegistration", "getNotifications",
     "markNotificationRead", "markAllNotificationsRead"}

Wrappers ==
    RawWrappers \cup HelperWrappers
        \cup {"getUserPrescriptions", "registerDoctor", "registerPatient"}

WrapperCalls == [helper : Wrappers, fetch : FetchOutcomes]

\* `const response = await fetch(...); return response.json()`: no look at
\* response.ok, no catch
rawFetch(f) ==
    IF f.kind = "rejects" THEN rejected("TypeError", f.text, 0)
    ELSE IF f.body.json THEN resolved(f.body)
    ELSE rejected("SyntaxError", "", 0)

\* getUserPrescriptions: `{ prescriptions: [], error: error.message }` in
\* place of whatever apiRequest threw
emptyPrescriptions(r) ==
    resolved([json |-> TRUE, error |-> r.text, message |-> Null])

\* faulty variant of wrapper: every method of the raw-fetch shape
wrapperAllRaw(name, f) ==
    rawFetch(f)

\* how the promise of api.<name>(...) settles
wrapper(name, f) ==
    IF name \in RawWrappers THEN rawFetch(f)
    ELSE IF name \in {"registerDoctor", "registerPatient"} THEN wrapped(name, f)
    ELSE IF name = "getUserPrescriptions"
    THEN IF wrapped("apiRequest", f).kind = "rejected"
         THEN emptyPrescriptions(wrapped("apiRequest", f))
         ELSE wrapped("apiRequest", f)
    ELSE wrapped("apiRequest", f)

\* the call of a method of `api` settles
wrapperSettled ==
    /\ call /= NoRequest
    /\ settled = Pending
    /\ settled' = wrapper(call.helper, call.fetch)
    /\ UNCHANGED call
    /\ UNCHANGED orderVars
    /\ UNCHANGED authVars
    /\ UNCHANGED <<loginPageVars, pollVars>>


\* ------------------------------------------------------------ specifications
NoOp == edit("mount")

\* the state after the first render, whatever localStorage and the URL hold
Mounted ==
    /\ user = NullUser
    /\ userType = Null
    /\ isLoading = TRUE
    /\ crashed = FALSE
    /\ logins = {}
    /\ lastAuth = [op |-> "mount", call |-> NoCall, result |-> FALSE,
                   pre |-> [user |-> NullUser, userType |-> Null, storage |-> storage]]
    /\ cart = <<>>
    /\ address = <<>>
    /\ phone = <<>>
    /\ showDialog = FALSE
    /\ total = 0
    /\ hasAddedMedicine = FALSE
    /\ effectPending = FALSE
    /\ orders = {}
    /\ sent = 0
    /\ toast = NoToast
    /\ last = NoOp
    /\ addHistory = NoAdds
    /\ submit = NoSubmit
    /\ leaving = Null
    /\ timers = {}
    /\ cleanup = 0
    /\ notifications = <<>>
    /\ unreadCount = 0
    /\ fetches = NoFetches
    /\ marks = NoMarks
    /\ lastPoll = NoPoll
    /\ settled = Pending

InitSession ==
    /\ storage \in InitialStorages
    /\ addMedicineParam = NoParam
    /\ route = "/order"
    /\ call = NoRequest
    /\ Mounted

\* the order page opened by a visitor or by the first demo patient, with any URL
InitOrder ==
    /\ storage \in { EmptyStorage,
                     [user |-> stringify(userData(CHOOSE p \in DEMO_PATIENTS : p.id = "1", "patient")),
                      userType |-> "patient"] }
    /\ addMedicineParam \in Params
    /\ route = "/order"
    /\ call = NoRequest
    /\ Mounted

\* the session store, driven through the context's operations
NextSession ==
    \/ restore
    \/ \E c \in LoginCalls : loginCall(c)
    \/ \E c \in LoginCalls : login(c)
    \/ logout
    \/ handleLogout

SpecSession == InitSession /\ [][NextSession]_vars

\* the order page, from its mount
NextOrder ==
    \/ restore
    \/ pageEffects
    \/ \E m \in Medicines : addToCart(m)
    \/ \E id \in 1..MaxMedicines, qty \in -1..MaxQty : updateQuantity(id, qty)
    \/ \E v \in FieldValues : setAddress(v)
    \/ \E v \in FieldValues : setPhone(v)
    \/ handlePlaceOrder
    \/ cancelDialog
    \/ sent < MaxOrders /\ confirmOrder
    \/ \E o \in orders, outcome \in Outcomes : orderSettled(o, outcome)

SpecOrder == InitOrder /\ [][NextOrder]_vars

\* the order page opened by the first demo patient with a medicine in the URL
InitConfirm ==
    /\ storage = [user |-> stringify(userData(CHOOSE p \in DEMO_PATIENTS : p.id = "1", "patient")),
                  userType |-> "patient"]
    /\ addMedicineParam \in { encodeMedicine(m) : m \in Medicines }
    /\ route = "/order"
    /\ call = NoRequest
    /\ Mounted

\* the confirmation dialog: the form, Place Order, Cancel and Confirm clicked
\* up to MaxConfirms times, and the answers to the requests
NextConfirm ==
    \/ restore
    \/ pageEffects
    \/ \E v \in FieldValues : setAddress(v)
    \/ \E v \in FieldValues : setPhone(v)
    \/ handlePlaceOrder
    \/ cancelDialog
    \/ sent < MaxConfirms /\ confirmOrder
    \/ \E o \in orders, outcome \in Outcomes : orderSettled(o, outcome)

SpecConfirm == InitConfirm /\ [][NextConfirm]_vars

\* the cart alone: the page's effects, Add and the quantity buttons
NextCart ==
    \/ restore
    \/ pageEffects
    \/ \E m \in Medicines : addToCart(m)
    \/ \E id \in 1..MaxMedicines, qty \in -1..MaxQty : updateQuantity(id, qty)

SpecCart == InitOrder /\ [][NextCart]_vars

\* a login page, opened by a visitor or by a signed-in user
InitLogin ==
    /\ storage \in InitialStorages
    /\ addMedicineParam = NoParam
    /\ route \in LoginPages
    /\ call = NoRequest
    /\ Mounted

\* the login pages, and the navigation bar's logout that leads back to them
NextLogin ==
    \/ restore
    \/ \E type \in {"patient", "doctor"} : openLoginPage(type)
    \/ \E email \in Emails, password \in Passwords : handleSubmit(email, password)
    \/ \E result \in LoginResults : loginSettled(result)
    \/ demoSettled
    \/ reload
    \/ handleLogout

SpecLogin == InitLogin /\ [][NextLogin]_vars

\* what localStorage holds when a page with the poller is opened: nothing, or
\* the pair of the first demo patient or of the first demo doctor
PollStorages ==
    { EmptyStorage }
    \cup { [user |-> stringify(userData(p, "patient")), userType |-> "patient"] :
               p \in { q \in DEMO_PATIENTS : q.id = "1" } }
    \cup { [user |-> stringify(userData(d, "doctor")), userType |-> "doctor"] :
               d \in { q \in DEMO_DOCTORS : q.id = "1" } }

\* the login made through the context while a page with the poller is shown:
\* the demo doctor's, which changes the user under the page
PollLogins == { c \in DemoCredentials : c.type = "doctor" }

InitPoll ==
    /\ storage \in PollStorages
    /\ addMedicineParam = NoParam
    /\ route \in PollPages
    /\ call = NoRequest
    /\ Mounted

\* the pages with the notification poller: their effect, the timer, the
\* requests, the bell's handlers, the navigation bar, and logins through the
\* context that change the user under the page
NextPoll ==
    \/ restore
    \/ pollEffects
    \/ \E t \in timers : tick(t)
    \/ \E origin \in Origins, response \in Responses : fetchSettled(origin, response)
    \/ \E kind \in MarkKinds : markRequested(kind)
    \/ \E kind \in MarkKinds, success \in BOOLEAN : markSettled(kind, success)
    \/ \E r \in PollPages \cup {"/patient-dashboard"} : navigate(r)
    \/ handleLogout
    \/ \E c \in PollLogins : loginCall(c)
    \/ \E c \in PollLogins : login(c)

SpecPoll == InitPoll /\ [][NextPoll]_vars

\* one call of a wrapped request helper, for everything fetch can do
InitRequest ==
    /\ storage = EmptyStorage
    /\ addMedicineParam = NoParam
    /\ route = "/order"
    /\ call \in Requests
    /\ Mounted

NextRequest == requestSettled

SpecRequest == InitRequest /\ [][NextRequest]_vars

\* one call of a method of `api`, for everything fetch can do
InitWrapper ==
    /\ storage = EmptyStorage
    /\ addMedicineParam = NoParam
    /\ route = "/order"
    /\ call \in WrapperCalls
    /\ Mounted

NextWrapper == wrapperSettled

SpecWrapper == InitWrapper /\ [][NextWrapper]_vars




\* ------------------------------------------------------------------- claims
rows(c, id) == { i \in 1..Len(c) : c[i].id = id }

\* C1: after a sequence of addItem calls (the Add button and the addMedicine
\* URL parameter) with no setQuantity call in between, the cart holds exactly
\* one entry for each id that was added and none for the others, and the
\* entry's quantity is the number of times its id was added.
C1_OneEntryPerAddedId ==
    addHistory.only =>
        \A id \in 1..MaxMedicines :
            /\ Cardinality(rows(cart, id)) = IF addHistory.count[id] > 0 THEN 1 ELSE 0
            /\ \A i \in rows(cart, id) : cart[i].quantity = addHistory.count[id]

C1_Witness ==
    /\ addHistory.only
    /\ hasAddedMedicine
    /\ addHistory.count[1] = 2
    /\ addHistory.count[2] = 1
    /\ last.op = "addToCart"

\* the sum of price x quantity over the items of a cart
RECURSIVE SumOfItems(_)
SumOfItems(c) ==
    IF c = <<>> THEN 0
    ELSE (Head(c).price * Head(c).quantity) + SumOfItems(Tail(c))

\* C2: in every reachable state of the order page the displayed total is the
\* sum of price x quantity over the items now in the cart, and 0 for an empty
\* cart.
C2_TotalIsSum ==
    /\ total = SumOfItems(cart)
    /\ cart = <<>> => total = 0

C2_Witness ==
    /\ last.op = "updateQuantity"
    /\ Len(cart) = 2
    /\ last.pre /= cart
    /\ \E i \in 1..Len(cart) : cart[i].quantity = 2
    /\ total = SumOfItems(cart)
    /\ total /= SumOfItems(last.pre)

\* C3: setQuantity(id, qty) with qty < 1 leaves no item with that id in the
\* cart, and every item of the cart has quantity >= 1 in every reachable state.
C3_NoNonPositiveQuantity ==
    /\ \A i \in 1..Len(cart) : cart[i].quantity >= 1
    /\ (last.op = "updateQuantity" /\ last.qty < 1) => rows(cart, last.id) = {}

C3_Witness ==
    /\ last.op = "updateQuantity"
    /\ last.qty = 0
    /\ rows(last.pre, last.id) /= {}
    /\ rows(cart, last.id) = {}
    /\ Len(cart) = Len(last.pre) - 1

Failed == {"noSuccess", "rejects"}

\* C4 as stated: when createOrder succeeds the cart is empty, and when it fails
\* the cart is exactly the cart that was submitted.
C4_CartIsSubmittedCart ==
    /\ last.op = "success" => cart = <<>>
    /\ last.op \in Failed => cart = last.order.medicines

\* C4 as amended: when createOrder succeeds the cart is empty, and when it
\* fails the cart is exactly the cart as it stood when the failure arrived
\* (the submitted cart, unless it was edited while the request was pending);
\* it is never cleared in part.
C4_CheckoutAtomic ==
    /\ last.op = "success" => cart = <<>>
    /\ last.op \in Failed => cart = last.pre
    /\ (last.op \in Failed /\ last.pre = last.order.medicines) => cart = last.order.medicines

C4_Witness ==
    /\ last.op = "rejects"
    /\ cart /= <<>>
    /\ cart = last.order.medicines
    /\ showDialog

\* C5: checkout with an empty cart is rejected with a validation error: the
\* dialog is not opened, no createOrder request is sent and the cart is
\* unchanged; no request in flight carries an empty cart.
C5_EmptyCartRejected ==
    /\ (last.op = "handlePlaceOrder" /\ last.pre = <<>>) =>
          /\ toast = <<"Cart", "is", "empty">>
          /\ ~showDialog
          /\ cart = last.pre
          /\ sent = last.preSent
    /\ \A o \in orders : o.medicines /= <<>>

C5_Witness ==
    /\ last.op = "handlePlaceOrder"
    /\ last.pre = <<>>
    /\ address /= <<>> /\ phone /= <<>>
    /\ toast = <<"Cart", "is", "empty">>

\* text that is empty or consists of whitespace only
isBlank(text) == \A i \in 1..Len(text) : text[i] = " "

\* C6: checkout with a non-empty cart is rejected whenever address or phone is
\* blank (empty or whitespace only): the dialog does not open, and no
\* createOrder request carries a blank address or phone.
C6_BlankFieldsRejected ==
    /\ (last.op = "handlePlaceOrder" /\ last.pre /= <<>> /\ (isBlank(address) \/ isBlank(phone)))
          => ~showDialog
    /\ \A o \in orders : ~isBlank(o.address) /\ ~isBlank(o.phone)

\* a message names a field when the field's name is one of its words
namesField(message, field) ==
    \E i \in 1..Len(message) : message[i] \in field

PhoneWords == {"phone", "Phone"}
AddressWords == {"address", "Address"}

missingField ==
    /\ last.op = "handlePlaceOrder"
    /\ last.pre /= <<>>
    /\ address = <<>> \/ phone = <<>>

C8_DemoLoginSucceeds ==
    (lastAuth.op = "login" /\ lastAuth.call \in DemoCredentials) =>
        /\ lastAuth.result
        /\ isAuthenticated
        /\ user.email = lastAuth.call.email
        /\ user.type = lastAuth.call.type
        /\ userType = lastAuth.call.type
        /\ storage.user.kind = "json" /\ storage.user.val = user
        /\ storage.userType = lastAuth.call.type

C8_Witness ==
    /\ lastAuth.op = "login"
    /\ lastAuth.call = [email |-> "patient@demo.com", password |-> "patient123", type |-> "patient"]
    /\ lastAuth.pre.user.type = "doctor"
    /\ lastAuth.result
    /\ user.type = "patient"

\* the credentials are those of an entry of the roster of the requested type
inRoster(c) ==
    \/ c.type = "patient" /\ \E p \in DEMO_PATIENTS : p.email = c.email /\ p.password = c.password
    \/ c.type = "doctor" /\ \E d \in DEMO_DOCTORS : d.email = c.email /\ d.password = c.password

\* C9: a login whose credentials match no roster entry returns false and
\* leaves user, userType and both persisted keys as they were.
C9_FailedLoginChangesNothing ==
    (lastAuth.op = "login" /\ ~inRoster(lastAuth.call)) =>
        /\ ~lastAuth.result
        /\ session = lastAuth.pre

C9_Witness ==
    /\ lastAuth.op = "login"
    /\ lastAuth.call = [email |-> "patient@demo.com", password |-> "doctor123", type |-> "patient"]
    /\ ~lastAuth.result
    /\ isAuthenticated
    /\ session = lastAuth.pre

LoggedOut == [user |-> NullUser, userType |-> Null, storage |-> EmptyStorage]

\* C10: logout leads, from every session state, to no user, no userType and
\* both persisted keys removed; logout can be called again, and on a session
\* that is already logged out it changes nothing.
C10_LogoutClearsAndIsIdempotent ==
    lastAuth.op = "logout" =>
        /\ ~isAuthenticated
        /\ session = LoggedOut
        /\ ~crashed
        /\ ENABLED logout
        /\ lastAuth.pre = LoggedOut => session = lastAuth.pre

C10_Witness ==
    /\ lastAuth.op = "logout"
    /\ lastAuth.pre = LoggedOut
    /\ session = LoggedOut
    /\ route = "/login"

\* the restore effect has run over a 'user' value that is not JSON, with a
\* 'userType' value present
restoredCorrupt ==
    /\ lastAuth.op = "restore"
    /\ lastAuth.pre.storage.user = Corrupt
    /\ lastAuth.pre.storage.userType /= Null

\* C11: restore over corrupted persisted data (a 'user' value that is not
\* valid JSON, a 'userType' value present) ends with isAuthenticated = false
\* and loading = false, and no error escapes the restore step.
C11_RestoreFailsSoft ==
    restoredCorrupt =>
        /\ ~isAuthenticated
        /\ ~isLoading
        /\ ~crashed

\* C12: the loading flag is true from provider creation until the restore
\* attempt has finished, is false once that attempt is over, whether it
\* succeeded, found nothing or failed, and is never true again afterwards:
\* login and logout leave it alone.
C12_LoadingFalseAfterRestore ==
    /\ isLoading <=> lastAuth.op = "mount"
    /\ lastAuth.op \in {"login", "logout"} => ~isLoading

\* C13: between handlers the two persisted keys, 'user' and 'userType', are
\* both present or both absent (a successful login, through the context or
\* through a login page's backend path, writes both; logout removes both), and
\* when the stored identity is present its type is the stored role tag.
C13_KeysTogether ==
    /\ (storage.user = Absent) <=> (storage.userType = Null)
    /\ parses(storage.user) => parse(storage.user).type = storage.userType

\* a backend login has replaced a doctor's pair by a patient's, and the
\* restarted application has restored it
C13_Witness ==
    /\ lastAuth.op = "restore"
    /\ lastAuth.pre.storage = storage
    /\ storage.userType = "patient"
    /\ parse(storage.user).id = "7"
    /\ user = parse(storage.user)
    /\ route = "/patient-dashboard"
    /\ lastAuth.pre.user = NullUser

\* C14: a notification poll tick whose fetch fails leaves the notification
\* list and the unread count exactly as they were before the failure arrived;
\* a failed fetch never resets them to empty or zero.
C14_FailedFetchKeepsList ==
    lastPoll.op = "fetchFailed" =>
        /\ notifications = lastPoll.pre.notifications
        /\ unreadCount = lastPoll.pre.unreadCount

C14_Witness ==
    /\ lastPoll.op = "fetchFailed"
    /\ lastPoll.origin = "tick"
    /\ Len(notifications) = 2
    /\ unreadCount = 1
    /\ view = lastPoll.pre

\* the operations that unmount the page shown
Unmounts == {"logout", "navigate", "redirect"}

\* C15: a notification poll timer is active only while its page is mounted
\* with a signed-in user; it is cancelled when the page is torn down and when
\* the session ends (logout); at most one timer per page is active; no timer
\* tick fires against a logged-out session.
C15_TimerScoped ==
    /\ \A t \in timers :
          /\ route = t.page
          /\ ~isLoading /\ ~crashed
          /\ isAuthenticated
    /\ \A page \in PollPages : Cardinality({ t \in timers : t.page = page }) <= 1
    /\ lastPoll.op \in Unmounts => timers = {}
    /\ ~isAuthenticated => timers = {}
    /\ lastPoll.op = "tick" => lastPoll.against /= NullUser

\* the session was ended on a page whose timer was running
C15_Witness ==
    /\ lastPoll.op = "logout"
    /\ lastPoll.active = 1
    /\ lastPoll.fetching = 2
    /\ timers = {}
    /\ ~isAuthenticated
    /\ route = "/login"

Marked == {"marked", "markFailed"}

\* the operations that may change what the page shows of the notifications:
\* a fetched response is applied, or the page is unmounted
Replaces == {"fetched", "mount"} \cup Unmounts

\* C16 as stated: after a markRead(id) or markAllRead() server call has
\* completed, the page at once fetches the notification list again; the local
\* read flags and unread count change only by being replaced with a fetched
\* response.
C16_RefetchAfterMark ==
    /\ lastPoll.op \in Marked => inFlight(fetches) = lastPoll.fetching + 1
    /\ lastPoll.op \notin Replaces => view = lastPoll.pre

\* C16 as amended: when the mark request resolved the page at once fetches the
\* list again; when it failed no fetch is made; in both cases, and in every
\* other operation of the mounted page but the arrival of a fetched response,
\* the local read flags and unread count stay as they were.
C16_RefetchAfterSuccessfulMark ==
    /\ lastPoll.op = "marked" =>
          /\ inFlight(fetches) = lastPoll.fetching + 1
          /\ fetches[lastPoll.origin] > 0
    /\ lastPoll.op = "markFailed" => inFlight(fetches) = lastPoll.fetching
    /\ lastPoll.op \notin Replaces => view = lastPoll.pre

C16_Witness ==
    /\ lastPoll.op = "marked"
    /\ lastPoll.origin = "markOne"
    /\ fetches["markOne"] = 1
    /\ unreadCount = 2
    /\ view = lastPoll.pre

\* C17: when login calls overlap (both pending during the simulated delay),
\* the credential check and the writes of each are one step: between steps
\* the session in memory and the persisted copy agree, a call that succeeds
\* leaves its own identity in both whatever the calls before it wrote, and a
\* call that fails leaves both as they were; so after all have completed the
\* identity is that of the call that wrote last.
C17_LastLoginWins ==
    /\ (lastAuth.op = "login" /\ lastAuth.result) =>
          /\ user.email = lastAuth.call.email
          /\ user.type = lastAuth.call.type
          /\ userType = lastAuth.call.type
          /\ storage = [user |-> stringify(user), userType |-> userType]
    /\ (lastAuth.op = "login" /\ ~lastAuth.result) => session = lastAuth.pre
    /\ isAuthenticated => storage = [user |-> stringify(user), userType |-> userType]

\* a call has completed while another was pending, over the session that a
\* login of another identity had written
C17_Witness ==
    /\ lastAuth.op = "login"
    /\ lastAuth.result
    /\ logins /= {}
    /\ lastAuth.pre.user /= NullUser
    /\ lastAuth.pre.user.type /= user.type
    /\ user.email = lastAuth.call.email
    /\ storage.user = stringify(user)

\* the message of a rejection is the literal text of a field of the body
fromBody(result, body) ==
    /\ result.status = 0
    /\ \/ body.error /= Null /\ result.text = body.error
       \/ body.message /= Null /\ result.text = body.message

\* C18: a call through the wrapped request helper resolves with the parsed
\* JSON body on a 2xx response; on a non-2xx response it fails with the text of
\* the body's error or message field when the body has one, and otherwise with
\* a generic message derived from the HTTP status; when the server cannot be
\* reached it fails with the connection error.
C18_WrappedRequestContract ==
    settled /= Pending =>
        /\ (call.fetch.kind = "response" /\ ok(call.fetch.status) /\ call.fetch.body.json) =>
              settled = resolved(call.fetch.body)
        /\ (call.fetch.kind = "response" /\ ~ok(call.fetch.status)) =>
              /\ settled.kind = "rejected"
              /\ IF call.fetch.body.json
                    /\ (call.fetch.body.error /= Null \/ call.fetch.body.message /= Null)
                 THEN fromBody(settled, call.fetch.body)
                 ELSE settled.text = "HTTP error! status:" /\ settled.status = call.fetch.status
        /\ call.fetch.kind = "rejects" =>
              /\ settled.kind = "rejected"
              /\ settled.text = Unable \/ settled.class = "TypeError"

\* a message tells that the server cannot be reached
ServerWords == {"server", "Server", "backend", "connect", "connection", "reach",
                "reached", "unreachable", "running", "network", "Network"}

\* C19: when the backend is unreachable during a primary action (the submit
\* of a login page, the confirmation of an order), the user is shown a
\* message that the server cannot be reached; the failure is not swallowed.
\* Here for the login pages: the toast of a submit that found the backend
\* unreachable.
C19_UnreachableIsShown ==
    (submit.stage = "done" /\ submit.caught = "unreachable" /\ lastAuth.op = "login") =>
        namesField(toast, ServerWords)

\* C20: when createOrder fails, with a response that does not report success
\* (whatever its status) or with a network error, the user is shown an error
\* message and the cart is as it was; no failure passes without a message.
C20_OrderFailureIsShown ==
    last.op \in Failed =>
        /\ toast /= NoToast
        /\ cart = last.pre

\* C21: the poller of a page is a two-state machine, Idle and Fetching: a
\* fetch starts only from Idle (on a tick, on page load, as the re-fetch after
\* a mark-read action), so at most one notification fetch is in flight per
\* page at any time.
C21_OneFetchInFlight ==
    inFlight(fetches) <= 1

\* the named methods of the raw-fetch shape and of the request-helper shape
NamedRaw ==
    {"login", "searchMedicines", "createOrder", "createPrescription",
     "analyzeMedicineImage", "analyzePrescriptionImage", "getMedicineUsages",
     "getMedicineUsagesByName"}

\* a raw-fetch method resolves with the decoded body whatever the status
RawShape ==
    (call.fetch.kind = "response" /\ call.fetch.body.json) =>
        settled = resolved(call.fetch.body)

\* a method built on the request helper fails on every non-2xx response
HelperShape ==
    (call.fetch.kind = "response" /\ ~ok(call.fetch.status)) =>
        settled.kind = "rejected"

\* C22: every API wrapper has one of two shapes: a raw-fetch wrapper
\* resolves with the decoded body whatever the HTTP status; a wrapper built on
\* the request helper (getUserPrescriptions among them) fails on every non-2xx
\* response and never resolves with a value for it.
C22_TwoShapes ==
    settled /= Pending =>
        IF call.helper \in RawWrappers THEN RawShape ELSE HelperShape

\* C22, amended: getUserPrescriptions is a third shape. It never fails: on a
\* non-2xx response, an unreachable server or a body that is not JSON it
\* resolves with the stand-in carrying the error text; every other method has
\* one of the two shapes.
C22_ThreeShapes ==
    settled /= Pending =>
        /\ NamedRaw \subseteq RawWrappers
        /\ IF call.helper \in RawWrappers THEN RawShape
           ELSE IF call.helper = "getUserPrescriptions"
           THEN /\ settled.kind = "resolved"
                /\ IF call.fetch.kind = "response" /\ ok(call.fetch.status)
                      /\ call.fetch.body.json
                   THEN settled.value = call.fetch.body
                   ELSE settled.value.error /= Null /\ settled.value.message = Null
           ELSE HelperShape

C22_Witness ==
    /\ call.helper = "getUserPrescriptions"
    /\ call.fetch.kind = "response"
    /\ call.fetch.status = 500
    /\ settled.kind = "resolved"

\* C23: in every reachable state userType is the type of the active user and
\* is null exactly when there is no user; it changes only through a completed
\* login, a logout or restore (after any other operation it is what it was);
\* the navigation shows the doctor's items exactly when userType is doctor and
\* renders nothing for a visitor.
C23_UserTypeFollowsUser ==
    /\ userType = user.type
    /\ userType = Null <=> user = NullUser
    /\ lastAuth.op \notin {"login", "logout", "restore"} =>
          userType = lastAuth.pre.userType
    /\ lastAuth.op = "logout" => userType = Null
    /\ lastAuth.op = "restore" =>
          userType = IF parses(storage.user) THEN storage.userType ELSE Null
    /\ lastAuth.op = "login" =>
          userType = IF lastAuth.result THEN lastAuth.call.type
                     ELSE lastAuth.pre.userType
    /\ ~isAuthenticated => Navigation = {}
    /\ isAuthenticated => (Navigation = doctorNavItems <=> userType = "doctor")
    /\ isAuthenticated => Navigation /= {}

C23_Witness ==
    /\ lastAuth.op = "login"
    /\ lastAuth.result
    /\ lastAuth.pre.userType = "patient"
    /\ userType = "doctor"
    /\ Navigation = doctorNavItems

\* C24: setQuantity(id, qty) with qty >= 1 on an id present in the cart sets
\* that item's quantity to qty and leaves every other item, and the order of
\* all items, unchanged; for an id absent from the cart it is a no-op for every
\* qty, qty < 1 included.
C24_SetQuantityFrame ==
    last.op = "updateQuantity" =>
        /\ rows(last.pre, last.id) = {} => cart = last.pre
        /\ (last.qty >= 1 /\ rows(last.pre, last.id) /= {}) =>
              /\ Len(cart) = Len(last.pre)
              /\ \A i \in 1..Len(cart) :
                    /\ cart[i].id = last.pre[i].id
                    /\ cart[i].price = last.pre[i].price
                    /\ cart[i].quantity =
                          IF cart[i].id = last.id THEN last.qty ELSE last.pre[i].quantity

C24_Witness ==
    /\ last.op = "updateQuantity"
    /\ last.qty = 2
    /\ Len(last.pre) = 2
    /\ last.pre[2].id = last.id
    /\ last.pre[2].quantity = 1
    /\ cart[2].quantity = 2
    /\ cart[1] = last.pre[1]
    /\ cart[1].quantity = 1

\* C25: addItem preserves insertion order: adding an id already in the cart
\* increments that item's quantity by exactly 1 in place and changes no other
\* item or position; adding a new id appends it at the end with quantity 1 and
\* leaves the existing items and their order unchanged.
C25_AddPreservesOrder ==
    last.op \in {"addToCart", "addMedicine"} =>
        IF rows(last.pre, last.id) /= {}
        THEN /\ Len(cart) = Len(last.pre)
             /\ \A i \in 1..Len(cart) :
                   IF last.pre[i].id = last.id
                   THEN cart[i] = [last.pre[i] EXCEPT !.quantity = last.pre[i].quantity + 1]
                   ELSE cart[i] = last.pre[i]
        ELSE /\ Len(cart) = Len(last.pre) + 1
             /\ SubSeq(cart, 1, Len(last.pre)) = last.pre
             /\ cart[Len(cart)].id = last.id
             /\ cart[Len(cart)].quantity = 1

C25_Witness ==
    /\ last.op = "addToCart"
    /\ Len(last.pre) = 1
    /\ rows(last.pre, last.id) = {}
    /\ Len(cart) = 2
    /\ cart[2].id = last.id

\* the credentials are those of an entry of the roster
credentialsOf(roster, c) ==
    \E p \in roster : p.email = c.email /\ p.password = c.password

\* C26: login(email, password, type) returns true if and only if the
\* (email, password) pair is exactly that of an entry of the demo roster for
\* the requested type; a patient's credentials never authenticate with type
\* doctor, a doctor's never with type patient, and type null never succeeds.
C26_LoginIffInRoster ==
    lastAuth.op = "login" =>
        /\ lastAuth.result <=>
              \/ lastAuth.call.type = "patient" /\ credentialsOf(DEMO_PATIENTS, lastAuth.call)
              \/ lastAuth.call.type = "doctor" /\ credentialsOf(DEMO_DOCTORS, lastAuth.call)
        /\ (credentialsOf(DEMO_PATIENTS, lastAuth.call) /\ lastAuth.call.type = "doctor")
              => ~lastAuth.result
        /\ (credentialsOf(DEMO_DOCTORS, lastAuth.call) /\ lastAuth.call.type = "patient")
              => ~lastAuth.result
        /\ lastAuth.call.type = Null => ~lastAuth.result

C26_Witness ==
    /\ lastAuth.op = "login"
    /\ credentialsOf(DEMO_DOCTORS, lastAuth.call)
    /\ lastAuth.call.type = "patient"
    /\ ~lastAuth.result
    /\ session = lastAuth.pre

\* C27: on the login pages the local demo-roster login is attempted only
\* when the backend login call throws; when the backend answers with success
\* false or without a user, no demo login is attempted, nothing is written to
\* persisted storage and the session is unchanged.
C27_DemoOnlyAfterThrow ==
    /\ submit.stage = "demo" => submit.caught \in Rejections
    /\ (submit.stage = "done" /\ lastAuth.op = "login") => submit.caught \in Rejections
    /\ lastAuth.op = "denied" =>
          /\ session = lastAuth.pre
          /\ submit.stage = "done" => submit.caught = "none"

C27_Witness ==
    /\ lastAuth.op = "denied"
    /\ submit.stage = "done"
    /\ submit.caught = "none"
    /\ inRoster(submit.call)
    /\ toast = InvalidCredentials
    /\ user = NullUser
    /\ storage = EmptyStorage

\* the identity in memory and the one in persisted storage are the same one
SameIdentity ==
    /\ parses(storage.user)
    /\ parse(storage.user).id = user.id
    /\ parse(storage.user).type = user.type

\* C28: once restore has finished (isLoading = false), in every state
\* between event handlers the in-memory user is non-null exactly when an
\* identity is present in persisted storage, and the two are the same identity
\* (same id and type), for every sequence of context login and logout calls
\* and login-page submissions.
C28_MemoryAgreesWithStorage ==
    ~isLoading =>
        /\ user /= NullUser <=> storage.user /= Absent
        /\ user /= NullUser => SameIdentity

\* the number of units of a medicine in a cart
RECURSIVE units(_, _)
units(c, id) ==
    IF c = <<>> THEN 0
    ELSE (IF Head(c).id = id THEN Head(c).quantity ELSE 0) + units(Tail(c), id)

\* a step in which the addMedicine effect puts its medicine into the cart
addMedicineStep ==
    last' /= last /\ last'.op = "addMedicine"

C30_OneOrderInFlight ==
    Cardinality(orders) <= 1

====
